---------------------------- MODULE Spec2Model ----------------------------
(***************************************************************************)
(* Model of the arithmetic-transformer data pipeline and training driver:  *)
(*   dataset.py  digit codec, padding helpers, AdditionDataset             *)
(*   train.py    manual_training (epoch loop with curriculum)              *)
(*                                                                         *)
(* Tensors are sequences: a 1-D tensor is a sequence of integers, a 2-D    *)
(* tensor a sequence of rows.  Sequences are 1-indexed; where the code     *)
(* computes with 0-based column numbers (sort keys, arange masks) the      *)
(* model uses the same 0-based values, i - 1 for column i.                 *)
(*                                                                         *)
(* torch tensors hold int64.  Every value the bounded model computes is    *)
(* below 2 * MaxBase^(MaxCells+1), far from 2^63, so the arithmetic below  *)
(* is exact integer arithmetic; int64 wrap-around (reached near            *)
(* base^number_length = 2^63) is outside the bounds of this model.         *)
(***************************************************************************)
EXTENDS Integers, Sequences, FiniteSets, TLC

VARIABLES
    pc,             \* position of the running function
    \* ---- digit codec calls (int_to_digits, digits_to_int, batched variants)
    n,              \* argument n of int_to_digits
    base,           \* argument base of the codec functions
    digits,         \* list returned by int_to_digits / tensor mutated in place
    number,         \* value returned by digits_to_int
    tensor,         \* input tensor of numbers_to_digits / of the padding helpers
    max_length,     \* argument max_length of numbers_to_digits
    grid,           \* tensor returned by numbers_to_digits
    numbers,        \* tensor returned by digits_to_numbers
    \* ---- padding helpers
    padding_token,  \* argument padding_token
    sorted_tensor,  \* tensor returned by move_padding_to_end
    \* ---- AdditionDataset and generate_batch
    dataset,        \* the AdditionDataset object (record of its fields)
    bs,             \* argument bs of generate_batch
    in_digits0,     \* local in_digits0 of generate_batch
    in_digits1,     \* local in_digits1 of generate_batch
    res,            \* value returned by generate_batch
    \* ---- manual_training
    args,           \* parsed command line (epochs)
    epoch,          \* number of completed iterations of the epoch loop
    batch_idx,      \* loop variable of the training / validation loop
    batch,          \* number_length read by the generate_batch call of this step
    accs,           \* validation accuracies collected this epoch
    time_to_success,\* Counter: number_length -> epochs spent
    epoch_log,      \* history: number_length at the start of each epoch
    epoch_lengths   \* history: number_lengths of the batches of this epoch

vars == << pc, n, base, digits, number, tensor, max_length, grid, numbers,
           padding_token, sorted_tensor, dataset, bs, in_digits0, in_digits1,
           res, args, epoch, batch_idx, batch, accs, time_to_success,
           epoch_log, epoch_lengths >>

codecVars == << n, base, digits, number, max_length, grid, numbers >>
padVars   == << padding_token, sorted_tensor >>
batchVars == << dataset, bs, in_digits0, in_digits1, res >>
trainVars == << args, epoch, batch_idx, batch, accs, time_to_success,
                epoch_log, epoch_lengths >>

-----------------------------------------------------------------------------
(* Bounds of the model *)

\* bases range over 2..MaxBase
MaxBase == 3
\* scalar and batched codec inputs range over 0..MaxNumber
MaxNumber == 20
\* max_length of numbers_to_digits ranges over 1..MaxDigits
MaxDigits == 4
\* batches of numbers have 1..MaxNumbers entries
MaxNumbers == 2
\* tensors given to the padding helpers have at most MaxPadCells cells
MaxPadCells == 4
\* their tokens range over 0..MaxToken
MaxToken == 2
\* generate_batch: bs * number_length <= MaxCells
MaxCells == 2
\* manual_training: args.epochs ranges over 0..MaxEpochs
MaxEpochs == 3
\* manual_training: the dataset starts at number_length 1..MaxStartLength
MaxStartLength == 2

(* Program constants *)

\* AdditionDataset(10**6, ...): data points per epoch
NumSamples == 1000000
\* range(10**3): training steps per epoch
TrainSteps == 1000
\* range(10**2): validation steps per epoch
ValSteps == 100
\* AdditionDataset(..., base=10, ...) in main
ProgramBase == 10

-----------------------------------------------------------------------------
(* Helpers standing for Python / torch primitives *)

RECURSIVE Pow(_, _)
Pow(b, e) == IF e = 0 THEN 1 ELSE b * Pow(b, e - 1)

RECURSIVE SumSeq(_)
SumSeq(s) == IF s = << >> THEN 0 ELSE Head(s) + SumSeq(Tail(s))

Reverse(s) == [i \in 1..Len(s) |-> s[Len(s) + 1 - i]]

\* the permutations of 1..k, as sequences
Perms(k) == {p \in [1..k -> 1..k] : \A i, j \in 1..k : p[i] = p[j] => i = j}

Identity(k) == [i \in 1..k |-> i]

\* all 2-D tensors with r rows and c columns over the value set S
Tensors(r, c, S) == [1..r -> [1..c -> S]]

-----------------------------------------------------------------------------
(* dataset.py: scalar digit codec *)

\* while n > 0: digits.append(n % base); n //= base
RECURSIVE int_to_digits_loop(_, _, _)
int_to_digits_loop(m, b, ds) ==
    IF m > 0 THEN int_to_digits_loop(m \div b, b, Append(ds, m % b)) ELSE ds

\* return digits or [0]
int_to_digits(m, b) ==
    LET ds == int_to_digits_loop(m, b, << >>)
    IN  IF ds = << >> THEN << 0 >> ELSE ds

\* for digit in <list>: n = n * base + digit
RECURSIVE digits_to_int_loop(_, _, _)
digits_to_int_loop(ds, b, m) ==
    IF ds = << >> THEN m ELSE digits_to_int_loop(Tail(ds), b, m * b + Head(ds))

digits_to_int_unreversed(ds, b) == digits_to_int_loop(ds, b, 0)

\* iterates list(digits)[::-1]
digits_to_int(ds, b) == digits_to_int_loop(Reverse(ds), b, 0)

-----------------------------------------------------------------------------
(* dataset.py: batched digit codec *)

\* torch.pow(base, torch.arange(max_length - 1, -1, -1)): column i (1-based)
\* carries the weight base^(max_length - i)
bases(b, len) == [i \in 1..len |-> Pow(b, len - i)]

numbers_to_digits_left(t, b, len) ==
    [r \in 1..Len(t) |-> [i \in 1..len |-> (t[r] \div Pow(b, i - 1)) % b]]

\* digits = (tensor // bases) % base, one row of max_length columns per number
numbers_to_digits(t, b, len) ==
    LET weights == bases(b, len)
    IN  [r \in 1..Len(t) |-> [i \in 1..len |-> (t[r] \div weights[i]) % b]]

\* numbers = (digits * bases).sum(dim=1), max_length = digits.size(1)
digits_to_numbers(d, b) ==
    [r \in 1..Len(d) |->
        LET len     == Len(d[r])
            weights == bases(b, len)
        IN  SumSeq([i \in 1..len |-> d[r][i] * weights[i]])]

-----------------------------------------------------------------------------
(* dataset.py: random operands and padding helpers *)

\* digits = torch.randint(base, (bs, L)); n_digits = torch.randint(L, (bs,));
\* the columns whose 0-based number is below n_digits[r] are set to 0.
\* rnd_digits and rnd_n are the two random draws.
make_digits_random_length(rnd_digits, rnd_n) ==
    [r \in 1..Len(rnd_digits) |->
        [i \in 1..Len(rnd_digits[r]) |->
            IF i - 1 < rnd_n[r] THEN 0 ELSE rnd_digits[r][i]]]

\* digits.cumsum(1) of one row
cumsum(row) == [i \in 1..Len(row) |-> SumSeq(SubSeq(row, 1, i))]

leading_zeros_to_padding_all(d, pad) ==
    [r \in 1..Len(d) |->
        LET sums == cumsum(d[r])
        IN  [i \in 1..Len(d[r]) |-> IF sums[i] = 0 THEN pad ELSE d[r][i]]]

\* mask = digits.cumsum(1) == 0; mask[:, -1] = False; digits[mask] = pad.
\* The value of the tensor after the in-place update.
leading_zeros_to_padding_(d, pad) ==
    [r \in 1..Len(d) |->
        LET sums == cumsum(d[r])
        IN  [i \in 1..Len(d[r]) |->
                IF sums[i] = 0 /\ i # Len(d[r]) THEN pad ELSE d[r][i]]]

sorting_tensor_pad_first(row, pad) ==
    [i \in 1..Len(row) |-> IF row[i] # pad THEN i - 1 ELSE 0]

\* non_padding_mask * arange(size) + (~non_padding_mask) * size, one row
sorting_tensor(row, pad) ==
    [i \in 1..Len(row) |-> IF row[i] # pad THEN i - 1 ELSE Len(row)]

\* sorting_tensor.sort(dim=1) returns the indices that put the keys in
\* ascending order.  The sort is not requested stable, so the order among
\* equal keys is the implementation's: tie is the order it leaves them in
\* (a permutation; of two columns with equal keys the one with the smaller
\* tie value comes first).
sorted_indices(keys, tie) ==
    LET len == Len(keys)
        Before(j, k) == \/ keys[j] < keys[k]
                        \/ keys[j] = keys[k] /\ tie[j] < tie[k]
        rank == [j \in 1..len |-> 1 + Cardinality({k \in 1..len : Before(k, j)})]
    IN  [i \in 1..len |-> CHOOSE j \in 1..len : rank[j] = i]

\* torch.gather(tensor, 1, sorted_indices), one row
gather(row, idx) == [i \in 1..Len(idx) |-> row[idx[i]]]

\* ties[r] is the tie order the sort uses in row r
move_padding_to_end(t, pad, ties) ==
    [r \in 1..Len(t) |->
        gather(t[r], sorted_indices(sorting_tensor(t[r], pad), ties[r]))]

-----------------------------------------------------------------------------
(* dataset.py: AdditionDataset *)

\* __init__
AdditionDataset(num_samples, b, number_length) ==
    [ num_samples     |-> num_samples,
      base            |-> b,
      number_length   |-> number_length,
      sequence_length |-> 2,
      end_token       |-> b,
      separator_token |-> b + 1,
      padding_token   |-> b + 2,
      eos_token       |-> b + 3 ]

max_input_length(ds) == ds.sequence_length * (ds.number_length + 1)

max_output_length_no_eos(ds) ==
    Len(int_to_digits(ds.sequence_length * Pow(ds.base, ds.number_length),
                      ds.base))

max_output_length(ds) ==
    LET max_number == ds.sequence_length * Pow(ds.base, ds.number_length)
    IN  Len(int_to_digits(max_number, ds.base)) + 1

seq(ds) == max_input_length(ds) + max_output_length(ds)

cat_swapped(ds, d0, d1, out) ==
    [r \in 1..Len(d0) |->
        d0[r] \o << ds.end_token >> \o d1[r] \o << ds.separator_token >>
              \o out[r] \o << ds.eos_token >>]

\* the column-wise torch.cat of generate_batch
cat(ds, d0, d1, out) ==
    [r \in 1..Len(d0) |->
        d0[r] \o << ds.separator_token >> \o d1[r] \o << ds.end_token >>
              \o out[r] \o << ds.eos_token >>]

out_digits_narrow(ds, d0, d1) ==
    LET n0   == digits_to_numbers(d0, ds.base)
        n1   == digits_to_numbers(d1, ds.base)
        sums == [r \in 1..Len(d0) |-> n0[r] + n1[r]]
    IN  numbers_to_digits(sums, ds.base, ds.number_length)

\* sums = digits_to_numbers(in_digits0) + digits_to_numbers(in_digits1)
\* out_digits = numbers_to_digits(sums, base, max_length=number_length + 1)
out_digits(ds, d0, d1) ==
    LET n0   == digits_to_numbers(d0, ds.base)
        n1   == digits_to_numbers(d1, ds.base)
        sums == [r \in 1..Len(d0) |-> n0[r] + n1[r]]
    IN  numbers_to_digits(sums, ds.base, ds.number_length + 1)

\* generate_batch from the sum on (lines 117-136), given the two operand
\* tensors drawn by make_digits_random_length and the sort's tie orders
generate_batch(ds, d0, d1, ties) ==
    LET out  == leading_zeros_to_padding_(out_digits(ds, d0, d1), ds.padding_token)
        p0   == leading_zeros_to_padding_(d0, ds.padding_token)
        p1   == leading_zeros_to_padding_(d1, ds.padding_token)
    IN  move_padding_to_end(cat(ds, p0, p1, out), ds.padding_token, ties)

-----------------------------------------------------------------------------
(* Values of the variables a specification does not use *)

CodecIdle == /\ n = 0 /\ base = 0 /\ digits = << >> /\ number = 0
             /\ max_length = 0 /\ grid = << >> /\ numbers = << >>
PadIdle   == padding_token = 0 /\ sorted_tensor = << >>
BatchIdle == /\ dataset = AdditionDataset(0, 0, 0) /\ bs = 0
             /\ in_digits0 = << >> /\ in_digits1 = << >> /\ res = << >>
TrainIdle == /\ args = [epochs |-> 0] /\ epoch = 0 /\ batch_idx = 0
             /\ batch = 0 /\ accs = << 0, 0 >>
             /\ time_to_success = << >> /\ epoch_log = << >>
             /\ epoch_lengths = {}

-----------------------------------------------------------------------------
(* Specification SpecCodec: one call of int_to_digits followed by           *)
(* digits_to_int on its result, or one call of numbers_to_digits followed   *)
(* by digits_to_numbers on its result, on inputs drawn from bounded sets.   *)

InitCodec ==
    /\ base \in 2..MaxBase
    /\ \/ /\ pc = "int_to_digits"
          /\ n \in 0..MaxNumber
          /\ tensor = << >>
          /\ max_length = 0
       \/ /\ pc = "numbers_to_digits"
          /\ n = 0
          /\ tensor \in UNION {[1..k -> 0..MaxNumber] : k \in 1..MaxNumbers}
          /\ max_length \in 1..MaxDigits
    /\ digits = << >> /\ number = 0 /\ grid = << >> /\ numbers = << >>
    /\ PadIdle /\ BatchIdle /\ TrainIdle

IntToDigits ==
    /\ pc = "int_to_digits"
    /\ digits' = int_to_digits(n, base)
    /\ pc' = "digits_to_int"
    /\ UNCHANGED << n, base, number, tensor, max_length, grid, numbers >>
    /\ UNCHANGED << padVars, batchVars, trainVars >>

DigitsToInt ==
    /\ pc = "digits_to_int"
    /\ number' = digits_to_int(digits, base)
    /\ pc' = "int_done"
    /\ UNCHANGED << n, base, digits, tensor, max_length, grid, numbers >>
    /\ UNCHANGED << padVars, batchVars, trainVars >>

NumbersToDigits ==
    /\ pc = "numbers_to_digits"
    /\ grid' = numbers_to_digits(tensor, base, max_length)
    /\ pc' = "digits_to_numbers"
    /\ UNCHANGED << n, base, digits, number, tensor, max_length, numbers >>
    /\ UNCHANGED << padVars, batchVars, trainVars >>

DigitsToNumbers ==
    /\ pc = "digits_to_numbers"
    /\ numbers' = digits_to_numbers(grid, base)
    /\ pc' = "numbers_done"
    /\ UNCHANGED << n, base, digits, number, tensor, max_length, grid >>
    /\ UNCHANGED << padVars, batchVars, trainVars >>

NextCodec == IntToDigits \/ DigitsToInt \/ NumbersToDigits \/ DigitsToNumbers

SpecCodec == InitCodec /\ [][NextCodec]_vars

-----------------------------------------------------------------------------
(* Specification SpecPad: one call of move_padding_to_end or of             *)
(* leading_zeros_to_padding_ on a tensor drawn from a bounded set.          *)

\* the shapes (rows, columns) of the tensors drawn
PadShapes ==
    {sh \in (1..MaxPadCells) \X (1..MaxPadCells) : sh[1] * sh[2] <= MaxPadCells}

InitPad ==
    /\ pc \in {"move_padding_to_end", "leading_zeros_to_padding_"}
    /\ \E sh \in PadShapes : tensor \in Tensors(sh[1], sh[2], 0..MaxToken)
    /\ padding_token \in 0..(MaxToken + 1)
    /\ sorted_tensor = << >>
    /\ n = 0 /\ base = 0 /\ digits = << >> /\ number = 0
    /\ max_length = 0 /\ grid = << >> /\ numbers = << >>
    /\ BatchIdle /\ TrainIdle

\* every order the unstable sort may leave equal keys in
MovePaddingToEnd ==
    /\ pc = "move_padding_to_end"
    /\ \E ties \in [1..Len(tensor) -> Perms(Len(tensor[1]))] :
          sorted_tensor' = move_padding_to_end(tensor, padding_token, ties)
    /\ pc' = "move_done"
    /\ UNCHANGED << tensor, padding_token, codecVars, batchVars, trainVars >>

\* digits is the tensor after the in-place update; tensor keeps the argument
LeadingZerosToPadding ==
    /\ pc = "leading_zeros_to_padding_"
    /\ digits' = leading_zeros_to_padding_(tensor, padding_token)
    /\ pc' = "leading_done"
    /\ UNCHANGED << n, base, number, max_length, grid, numbers >>
    /\ UNCHANGED << tensor, padVars, batchVars, trainVars >>

NextPad == MovePaddingToEnd \/ LeadingZerosToPadding

SpecPad == InitPad /\ [][NextPad]_vars

-----------------------------------------------------------------------------
(* Specification SpecBatch: one call of generate_batch on a dataset         *)
(* constructed with a base and a number_length drawn from bounded sets.     *)

\* (bs, number_length) pairs
BatchShapes ==
    {sh \in (1..MaxCells) \X (1..MaxCells) : sh[1] * sh[2] <= MaxCells}

InitBatch ==
    /\ pc = "in_digits0"
    /\ \E b \in 2..MaxBase, sh \in BatchShapes :
          /\ dataset = AdditionDataset(NumSamples, b, sh[2])
          /\ bs = sh[1]
    /\ in_digits0 = << >> /\ in_digits1 = << >> /\ res = << >>
    /\ tensor = << >>
    /\ CodecIdle /\ PadIdle /\ TrainIdle

\* the random draws of one make_digits_random_length(bs, base, L) call
RandomDigits == Tensors(bs, dataset.number_length, 0..(dataset.base - 1))
RandomLengths == [1..bs -> 0..(dataset.number_length - 1)]

\* line 114
MakeDigits0 ==
    /\ pc = "in_digits0"
    /\ \E rnd_digits \in RandomDigits, rnd_n \in RandomLengths :
          in_digits0' = make_digits_random_length(rnd_digits, rnd_n)
    /\ pc' = "in_digits1"
    /\ UNCHANGED << dataset, bs, in_digits1, res >>
    /\ UNCHANGED << tensor, codecVars, padVars, trainVars >>

\* line 115
MakeDigits1 ==
    /\ pc = "in_digits1"
    /\ \E rnd_digits \in RandomDigits, rnd_n \in RandomLengths :
          in_digits1' = make_digits_random_length(rnd_digits, rnd_n)
    /\ pc' = "sums"
    /\ UNCHANGED << dataset, bs, in_digits0, res >>
    /\ UNCHANGED << tensor, codecVars, padVars, trainVars >>

\* the tie orders tried for the sort of a row of the given width: equal keys
\* left in column order, or in reverse column order
TieOrders(width) == {Identity(width), Reverse(Identity(width))}

\* lines 117-136; the operand tensors are updated in place (lines 121, 122)
SumAndAssemble ==
    /\ pc = "sums"
    /\ \E ties \in [1..bs -> TieOrders(3 * dataset.number_length + 4)] :
          res' = generate_batch(dataset, in_digits0, in_digits1, ties)
    /\ in_digits0' = leading_zeros_to_padding_(in_digits0, dataset.padding_token)
    /\ in_digits1' = leading_zeros_to_padding_(in_digits1, dataset.padding_token)
    /\ pc' = "batch_done"
    /\ UNCHANGED << dataset, bs >>
    /\ UNCHANGED << tensor, codecVars, padVars, trainVars >>

NextBatch == MakeDigits0 \/ MakeDigits1 \/ SumAndAssemble

SpecBatch == InitBatch /\ [][NextBatch]_vars

-----------------------------------------------------------------------------
(* train.py: manual_training *)

\* The accuracies validation_step returns, in percent.  accs is kept as the
\* pair << number of entries, their sum >>: the list is read only by
\* torch.mean.
AccValues == {0, 100}

\* Counter lookup: a missing key counts 0
Count(counter, key) == IF key \in DOMAIN counter THEN counter[key] ELSE 0

\* counter[key] += 1
Increment(counter, key) ==
    [k \in DOMAIN counter \cup {key} |->
        Count(counter, k) + (IF k = key THEN 1 ELSE 0)]

more_epochs_inclusive == epoch <= args.epochs

\* for epoch in range(args.epochs): another iteration remains
more_epochs == epoch < args.epochs

at_least_threshold(a) == 10 * a[2] >= 9 * 100 * a[1]

\* acc = torch.mean(torch.tensor(accs)); acc > .9
exceeds_threshold(a) == 10 * a[2] > 9 * 100 * a[1]

InitTrain ==
    /\ pc = "for_epoch"
    /\ args \in [epochs : 0..MaxEpochs]
    /\ \E len \in 1..MaxStartLength :
          dataset = AdditionDataset(NumSamples, ProgramBase, len)
    /\ epoch = 0 /\ batch_idx = 0 /\ batch = 0 /\ accs = << 0, 0 >>
    /\ time_to_success = << >>
    /\ epoch_log = << >> /\ epoch_lengths = {}
    /\ bs = 0 /\ in_digits0 = << >> /\ in_digits1 = << >> /\ res = << >>
    /\ tensor = << >>
    /\ CodecIdle /\ PadIdle

\* line 136 (loop continues) and line 138
EpochStart ==
    /\ pc = "for_epoch"
    /\ more_epochs
    /\ pc' = "Training"
    /\ batch_idx' = 0
    /\ epoch_log' = Append(epoch_log, dataset.number_length)
    /\ epoch_lengths' = {}
    /\ UNCHANGED << args, epoch, batch, accs, time_to_success >>
    /\ UNCHANGED << tensor, codecVars, padVars, batchVars >>

\* line 136 (range exhausted): manual_training returns
LoopExit ==
    /\ pc = "for_epoch"
    /\ ~ more_epochs
    /\ pc' = "Done"
    /\ UNCHANGED << tensor, codecVars, padVars, batchVars, trainVars >>

\* lines 139-144: one training step; generate_batch reads number_length
TrainingStep ==
    /\ pc = "Training"
    /\ batch_idx < TrainSteps
    /\ batch' = dataset.number_length
    /\ epoch_lengths' = epoch_lengths \cup {dataset.number_length}
    /\ batch_idx' = batch_idx + 1
    /\ UNCHANGED << pc, args, epoch, accs, time_to_success, epoch_log >>
    /\ UNCHANGED << tensor, codecVars, padVars, batchVars >>

\* lines 146-150: training loop exhausted, accs = []
TrainingEnd ==
    /\ pc = "Training"
    /\ batch_idx = TrainSteps
    /\ pc' = "Validation"
    /\ accs' = << 0, 0 >>
    /\ batch_idx' = 0
    /\ UNCHANGED << args, epoch, batch, time_to_success, epoch_log, epoch_lengths >>
    /\ UNCHANGED << tensor, codecVars, padVars, batchVars >>

\* lines 152-155: one validation step
ValidationStep ==
    /\ pc = "Validation"
    /\ batch_idx < ValSteps
    /\ batch' = dataset.number_length
    /\ epoch_lengths' = epoch_lengths \cup {dataset.number_length}
    /\ \E acc \in AccValues : accs' = << accs[1] + 1, accs[2] + acc >>
    /\ batch_idx' = batch_idx + 1
    /\ UNCHANGED << pc, args, epoch, time_to_success, epoch_log >>
    /\ UNCHANGED << tensor, codecVars, padVars, batchVars >>

\* validation loop exhausted
ValidationEnd ==
    /\ pc = "Validation"
    /\ batch_idx = ValSteps
    /\ pc' = "CurriculumCheck"
    /\ UNCHANGED << tensor, codecVars, padVars, batchVars, trainVars >>

CurriculumCheck_count_after ==
    /\ pc = "CurriculumCheck"
    /\ dataset' = IF exceeds_threshold(accs)
                  THEN [dataset EXCEPT !.number_length = @ + 1]
                  ELSE dataset
    /\ time_to_success' = Increment(time_to_success, dataset'.number_length)
    /\ epoch' = epoch + 1
    /\ pc' = "for_epoch"
    /\ UNCHANGED << args, batch_idx, batch, accs, epoch_log, epoch_lengths >>
    /\ UNCHANGED << bs, in_digits0, in_digits1, res >>
    /\ UNCHANGED << tensor, codecVars, padVars >>

\* lines 157-165, then the next iteration of the epoch loop
CurriculumCheck ==
    /\ pc = "CurriculumCheck"
    /\ time_to_success' = Increment(time_to_success, dataset.number_length)
    /\ dataset' = IF exceeds_threshold(accs)
                  THEN [dataset EXCEPT !.number_length = @ + 1]
                  ELSE dataset
    /\ epoch' = epoch + 1
    /\ pc' = "for_epoch"
    /\ UNCHANGED << args, batch_idx, batch, accs, epoch_log, epoch_lengths >>
    /\ UNCHANGED << bs, in_digits0, in_digits1, res >>
    /\ UNCHANGED << tensor, codecVars, padVars >>

NextTrain ==
    \/ EpochStart \/ LoopExit \/ TrainingStep \/ TrainingEnd
    \/ ValidationStep \/ ValidationEnd \/ CurriculumCheck

SpecTrain == InitTrain /\ [][NextTrain]_vars

-----------------------------------------------------------------------------
(* Operators used to state the properties *)

\* value of a digit sequence read most significant digit first
RECURSIVE ValueMSB(_, _)
ValueMSB(ds, b) ==
    IF ds = << >> THEN 0
    ELSE ds[Len(ds)] + b * ValueMSB(SubSeq(ds, 1, Len(ds) - 1), b)

\* value of a digit sequence read least significant digit first
RECURSIVE ValueLSB(_, _)
ValueLSB(ds, b) ==
    IF ds = << >> THEN 0 ELSE Head(ds) + b * ValueLSB(Tail(ds), b)

\* the columns of row holding token tok
Positions(row, tok) == {i \in 1..Len(row) : row[i] = tok}

\* number of occurrences of v in row
Occurrences(row, v) == Cardinality(Positions(row, v))

\* the only column of row holding tok (when there is exactly one)
PositionOf(row, tok) == CHOOSE i \in 1..Len(row) : row[i] = tok

IsDigits(s, b) == \A i \in 1..Len(s) : s[i] \in 0..(b - 1)

\* the three fields of a generated row
Operand0(row) == SubSeq(row, 1, PositionOf(row, dataset.separator_token) - 1)
Operand1(row) == SubSeq(row, PositionOf(row, dataset.separator_token) + 1,
                             PositionOf(row, dataset.end_token) - 1)
Output(row)   == SubSeq(row, PositionOf(row, dataset.end_token) + 1,
                             PositionOf(row, dataset.eos_token) - 1)

-----------------------------------------------------------------------------
(* C1 *)

\* C1 as stated: generate_batch(bs) returns bs rows of exactly seq columns,
\* for every base >= 2 and number_length >= 1.
C1_ShapeIsSeq ==
    pc = "batch_done" =>
        /\ Len(res) = bs
        /\ \A r \in 1..Len(res) : Len(res[r]) = seq(dataset)

\* C1 amended: generate_batch(bs) returns bs rows of 3 * number_length + 4
\* columns; that width equals seq for every base >= 3 and equals seq - 1 for
\* base 2, so it never exceeds seq.
C1_Shape ==
    pc = "batch_done" =>
        /\ Len(res) = bs
        /\ \A r \in 1..Len(res) :
              /\ Len(res[r]) = 3 * dataset.number_length + 4
              /\ Len(res[r]) <= seq(dataset)
              /\ dataset.base >= 3 => Len(res[r]) = seq(dataset)
              /\ dataset.base = 2 => Len(res[r]) = seq(dataset) - 1

C1_Witness ==
    /\ pc = "batch_done"
    /\ dataset.base = 3
    /\ dataset.number_length = 1
    /\ bs = 2
    /\ Len(res) = 2
    /\ Len(res[2]) = 7
    /\ seq(dataset) = 7

-----------------------------------------------------------------------------
(* C2 *)

\* the spec's concrete scenario: base 10, operands [0,7] and [0,3]
ScenarioRow ==
    generate_batch(AdditionDataset(NumSamples, 10, 2),
                   << << 0, 7 >> >>, << << 0, 3 >> >>, << Identity(10) >>)[1]

-----------------------------------------------------------------------------
(* C7 *)

\* C7: every generated row holds exactly one separator, one end and one eos
\* token, in that order, with at least one digit in each of the three fields
\* they delimit and nothing but padding after the eos; the reserved token
\* ids are four distinct values outside [0, base).
C7_RowLayout ==
    /\ pc \in {"in_digits0", "in_digits1", "sums", "batch_done"} =>
          /\ {dataset.end_token, dataset.separator_token,
              dataset.padding_token, dataset.eos_token}
                 \cap (0..(dataset.base - 1)) = {}
          /\ Cardinality({dataset.end_token, dataset.separator_token,
                          dataset.padding_token, dataset.eos_token}) = 4
    /\ pc = "batch_done" =>
          \A r \in 1..Len(res) :
              LET row == res[r]
                  sep == PositionOf(row, dataset.separator_token)
                  end == PositionOf(row, dataset.end_token)
                  eos == PositionOf(row, dataset.eos_token)
              IN  /\ Occurrences(row, dataset.separator_token) = 1
                  /\ Occurrences(row, dataset.end_token) = 1
                  /\ Occurrences(row, dataset.eos_token) = 1
                  /\ sep < end /\ end < eos
                  /\ Len(Operand0(row)) >= 1 /\ IsDigits(Operand0(row), dataset.base)
                  /\ Len(Operand1(row)) >= 1 /\ IsDigits(Operand1(row), dataset.base)
                  /\ Len(Output(row)) >= 1 /\ IsDigits(Output(row), dataset.base)
                  /\ \A i \in 1..Len(row) :
                        row[i] = dataset.padding_token <=> i > eos

\* 0 + 0 = 0 with number_length 2: one digit per field, four padding tokens
C7_Witness ==
    /\ pc = "batch_done"
    /\ dataset.base = 3
    /\ res = << << 0, 4, 0, 3, 0, 6, 5, 5, 5, 5 >> >>

-----------------------------------------------------------------------------
(* C5 *)

\* C5: move_padding_to_end returns, for each row, a permutation of the row
\* in which every padding token comes after every other token and the other
\* tokens keep their order.
C5_StablePartition ==
    pc = "move_done" =>
        /\ Len(sorted_tensor) = Len(tensor)
        /\ \A r \in 1..Len(tensor) :
              LET row == tensor[r]
                  out == sorted_tensor[r]
                  NonPad(x) == x # padding_token
              IN  /\ Len(out) = Len(row)
                  /\ \A v \in 0..(MaxToken + 1) :
                        Occurrences(out, v) = Occurrences(row, v)
                  /\ \A i, j \in 1..Len(out) :
                        (i < j /\ out[i] = padding_token) => out[j] = padding_token
                  /\ SelectSeq(out, NonPad) = SelectSeq(row, NonPad)

C5_Witness ==
    /\ pc = "move_done"
    /\ padding_token = 2
    /\ tensor = << << 2, 0, 2, 1 >> >>
    /\ sorted_tensor = << << 0, 1, 2, 2 >> >>

-----------------------------------------------------------------------------
(* C6 *)

\* C6: leading_zeros_to_padding_ sets to the padding token exactly the
\* columns of a row's leading run of zeros other than the last column, and
\* changes nothing else; the last column is never changed.
C6_LeadingZeros ==
    pc = "leading_done" =>
        /\ Len(digits) = Len(tensor)
        /\ \A r \in 1..Len(tensor) :
              /\ Len(digits[r]) = Len(tensor[r])
              /\ \A i \in 1..Len(tensor[r]) :
                    LET leading == \A k \in 1..i : tensor[r][k] = 0
                    IN  digits[r][i] =
                            IF leading /\ i < Len(tensor[r])
                            THEN padding_token ELSE tensor[r][i]
              /\ digits[r][Len(tensor[r])] = tensor[r][Len(tensor[r])]

\* an all-zero row keeps its final 0
C6_Witness ==
    /\ pc = "leading_done"
    /\ padding_token = 3
    /\ tensor = << << 0, 0, 0 >> >>
    /\ digits = << << 3, 3, 0 >> >>

-----------------------------------------------------------------------------
(* C8 *)

\* C8: int_to_digits(n, b) is a non-empty list of digits in [0, b), least
\* significant first, whose value is n, and is [0] for n = 0;
\* digits_to_int of it is n.
C8_RoundTrip ==
    /\ pc \in {"digits_to_int", "int_done"} =>
          /\ Len(digits) >= 1
          /\ IsDigits(digits, base)
          /\ ValueLSB(digits, base) = n
          /\ n = 0 => digits = << 0 >>
    /\ pc = "int_done" => number = n

C8_Witness ==
    /\ pc = "int_done"
    /\ n = 6 /\ base = 2
    /\ digits = << 0, 1, 1 >>
    /\ number = 6

-----------------------------------------------------------------------------
(* C9 *)

-----------------------------------------------------------------------------
(* C3 *)

\* number of epochs of the log that started at number_length len
EpochsAt(len) == Cardinality({i \in 1..Len(epoch_log) : epoch_log[i] = len})

BetweenEpochs == pc \in {"for_epoch", "Done"}

\* C3: after each epoch time_to_success[L] is the number of completed epochs
\* run at number_length L, and no entry ever shrinks; from number_length 1,
\* a first epoch with mean accuracy 0.5 leaves number_length at 1 with
\* time_to_success[1] = 1, and a second with mean 0.95 raises number_length
\* to 2 with time_to_success[1] = 2.
C3_TimeToSuccess ==
    /\ [](BetweenEpochs =>
            /\ Len(epoch_log) = epoch
            /\ \A len \in 1..(MaxStartLength + MaxEpochs + 1) :
                  Count(time_to_success, len) = EpochsAt(len))
    /\ [][/\ \A len \in DOMAIN time_to_success :
                /\ len \in DOMAIN time_to_success'
                /\ time_to_success'[len] >= time_to_success[len]
          /\ (pc = "CurriculumCheck" /\ epoch_log = << 1 >>
                /\ accs = << 100, 5000 >>) =>
                /\ dataset'.number_length = 1
                /\ Count(time_to_success', 1) = 1
          /\ (pc = "CurriculumCheck" /\ epoch_log = << 1, 1 >>
                /\ accs = << 100, 9500 >>) =>
                /\ dataset'.number_length = 2
                /\ Count(time_to_success', 1) = 2]_vars

\* two epochs from number_length 1, the second validated at mean 0.95
C3_Witness ==
    /\ pc = "Done"
    /\ args.epochs = 2
    /\ epoch_log = << 1, 1 >>
    /\ accs = << 100, 9500 >>
    /\ dataset.number_length = 2
    /\ Count(time_to_success, 1) = 2
    /\ Count(time_to_success, 2) = 0

-----------------------------------------------------------------------------
(* C4 *)

\* C4: number_length never decreases; the step that ends an epoch raises it
\* by exactly 1 if the epoch's mean validation accuracy is strictly above
\* 0.9 and leaves it unchanged otherwise; no other step changes it.
C4_Ratchet ==
    [][/\ dataset'.number_length >= dataset.number_length
       /\ pc = "CurriculumCheck" =>
             /\ accs[1] = ValSteps
             /\ dataset'.number_length =
                   IF accs[2] > 90 * accs[1]
                   THEN dataset.number_length + 1
                   ELSE dataset.number_length
       /\ pc # "CurriculumCheck" =>
             dataset'.number_length = dataset.number_length]_vars

\* promoted after the first epoch, then an epoch with accuracy 0 at length 2:
\* the third epoch still runs at length 2
C4_Witness ==
    /\ pc = "Training"
    /\ epoch_log = << 1, 2, 2 >>
    /\ accs = << 100, 0 >>
    /\ dataset.number_length = 2

-----------------------------------------------------------------------------
(* C10 *)

\* C10: an epoch is all training steps, then all validation steps, then the
\* curriculum check; number_length changes only in the curriculum check; all
\* batches of an epoch are generated at one number_length; the loop ends
\* after exactly args.epochs epochs.
C10_EpochOrder ==
    /\ [](/\ Cardinality(epoch_lengths) <= 1
          /\ pc \in {"Training", "Validation", "CurriculumCheck"} =>
                epoch_lengths \subseteq {epoch_log[Len(epoch_log)]}
          /\ pc = "Done" => epoch = args.epochs /\ Len(epoch_log) = args.epochs)
    /\ [][/\ pc = "for_epoch" => pc' \in {"Training", "Done"}
          /\ pc = "Training" =>
                /\ pc' \in {"Training", "Validation"}
                /\ pc' = "Validation" <=> batch_idx = TrainSteps
          /\ pc = "Validation" =>
                /\ pc' \in {"Validation", "CurriculumCheck"}
                /\ pc' = "CurriculumCheck" <=> batch_idx = ValSteps
          /\ pc = "CurriculumCheck" =>
                /\ pc' = "for_epoch"
                /\ epoch' = epoch + 1
          /\ pc = "Done" => pc' = "Done"
          /\ dataset' # dataset => pc = "CurriculumCheck"]_vars

\* three epochs, each promoted
C10_Witness ==
    /\ pc = "Done"
    /\ args.epochs = 3
    /\ epoch = 3
    /\ epoch_log = << 1, 2, 3 >>
    /\ dataset.number_length = 4

=============================================================================
